---- MODULE Spec2Model ----
(***************************************************************************)
(* The watch machinery of ui/src/app/shared/utils/watch.ts: the Event      *)
(* Source Adapter (fromEventSource), the Visibility Gate                   *)
(* (handlePageVisibility), the list watch (useWatchList) and the           *)
(* single-item watch (useWatch), with the rxjs operators they are built    *)
(* from (map, repeat, retryWhen/delay, scan, bufferTime, mergeMap,         *)
(* debounceTime, timeout) modelled by what they do.                        *)
(*                                                                         *)
(* Three specifications share the definitions:                             *)
(*   Spec       the list watch hook, its pipeline, the page and transport  *)
(*   SpecWatch  the single-item watch hook, likewise                       *)
(*   SpecFold   the list reducer alone, folded over arbitrary lists        *)
(***************************************************************************)
EXTENDS Integers, Sequences, FiniteSets, TLC

(***************************************************************************)
(* Bounds of the model.                                                    *)
(***************************************************************************)
\* longest list the reducer specification starts from
MaxLen == 2

(***************************************************************************)
(* Items, change events.  An item is a JavaScript object: a function from  *)
(* the names of the fields it has to their values.  Every item has "id"    *)
(* (its logical key); "name" is optional.                                  *)
(***************************************************************************)
\* two logical keys: the reducer only tells "same key" from "another key"
Keys == {1, 2}
Names == {"a", "b"}

EmptyRecord == [f \in {} |-> 0]

Items ==
    {[f \in {"id"} |-> k] : k \in Keys}
        \cup {[id |-> k, name |-> n] : k \in Keys, n \in Names}

\* WatchEvent.type is optional: NoType stands for a change without the field
NoType == "<unspecified>"
Types == {"Added", "Updated", "Deleted", "Modified", NoType}

\* a decoded change event E: its type and the object it carries
Changes == [type : Types, obj : Items]

\* the caller's identity predicate: same logical key
findItem(i, change) == i.id = change.obj.id

\* the caller's extraction function: the object the change carries
getItem(change) == change.obj

\* items.findIndex((i) => findItem(i, change)); 0 stands for -1 (sequences
\* are indexed from 1)
findIndex(items, change) ==
    IF \E i \in 1..Len(items) : findItem(items[i], change)
    THEN CHOOSE i \in 1..Len(items) :
            /\ findItem(items[i], change)
            /\ \A j \in 1..(i - 1) : ~findItem(items[j], change)
    ELSE 0

\* items.splice(index, 1)
splice(items, index) ==
    [j \in 1..(Len(items) - 1) |-> IF j < index THEN items[j] ELSE items[j + 1]]

\* {...a, ...b}: every field of b, and the fields only a has
spread(a, b) ==
    [f \in (DOMAIN a) \cup (DOMAIN b) |-> IF f \in DOMAIN b THEN b[f] ELSE a[f]]

\* items.unshift(x)
unshift(items, x) == <<x>> \o items

\* scanList variants, each the reducer with one slip
\* the default case inserts without looking the key up
scanListAlwaysPrepend(items, change) ==
    LET index == findIndex(items, change) IN
    CASE change.type = "Deleted" ->
            IF index > 0 THEN splice(items, index) ELSE items
      [] change.type = "Updated" ->
            IF index > 0
            THEN [items EXCEPT ![index] = spread(items[index], getItem(change))]
            ELSE items
      [] OTHER -> unshift(items, getItem(change))

\* Deleted splices without the index > -1 test: splice(-1, 1) drops the last item
scanListDeleteUnguarded(items, change) ==
    LET index == findIndex(items, change) IN
    CASE change.type = "Deleted" ->
            IF index > 0 THEN splice(items, index)
            ELSE IF Len(items) > 0 THEN splice(items, Len(items)) ELSE items
      [] change.type = "Updated" ->
            IF index > 0
            THEN [items EXCEPT ![index] = spread(items[index], getItem(change))]
            ELSE items
      [] OTHER ->
            IF index > 0
            THEN [items EXCEPT ![index] = getItem(change)]
            ELSE unshift(items, getItem(change))

\* Updated falls through to the insert of the default case when nothing matches
scanListUpsert(items, change) ==
    LET index == findIndex(items, change) IN
    CASE change.type = "Deleted" ->
            IF index > 0 THEN splice(items, index) ELSE items
      [] change.type = "Updated" ->
            IF index > 0
            THEN [items EXCEPT ![index] = spread(items[index], getItem(change))]
            ELSE unshift(items, getItem(change))
      [] OTHER ->
            IF index > 0
            THEN [items EXCEPT ![index] = getItem(change)]
            ELSE unshift(items, getItem(change))

\* the default case appends (push) where the reducer prepends (unshift)
scanListPush(items, change) ==
    LET index == findIndex(items, change) IN
    CASE change.type = "Deleted" ->
            IF index > 0 THEN splice(items, index) ELSE items
      [] change.type = "Updated" ->
            IF index > 0
            THEN [items EXCEPT ![index] = spread(items[index], getItem(change))]
            ELSE items
      [] OTHER ->
            IF index > 0
            THEN [items EXCEPT ![index] = getItem(change)]
            ELSE Append(items, getItem(change))

\* Updated stores the extracted item as it is, without the spread of the
\* existing one
scanListUpdateReplaces(items, change) ==
    LET index == findIndex(items, change) IN
    CASE change.type = "Deleted" ->
            IF index > 0 THEN splice(items, index) ELSE items
      [] change.type = "Updated" ->
            IF index > 0
            THEN [items EXCEPT ![index] = getItem(change)]
            ELSE items
      [] OTHER ->
            IF index > 0
            THEN [items EXCEPT ![index] = getItem(change)]
            ELSE unshift(items, getItem(change))

\* the list reducer given to scan
scanList(items, change) ==
    LET index == findIndex(items, change) IN
    CASE change.type = "Deleted" ->
            IF index > 0 THEN splice(items, index) ELSE items
      [] change.type = "Updated" ->
            IF index > 0
            THEN [items EXCEPT ![index] = spread(items[index], getItem(change))]
            ELSE items
      [] OTHER ->
            IF index > 0
            THEN [items EXCEPT ![index] = getItem(change)]
            ELSE unshift(items, getItem(change))

(***************************************************************************)
(* Helpers for the properties.                                             *)
(***************************************************************************)
RECURSIVE ListsUpTo(_)
ListsUpTo(n) ==
    IF n = 0 THEN {<<>>}
    ELSE LET S == ListsUpTo(n - 1) IN
         S \cup {unshift(l, x) : l \in {m \in S : Len(m) = n - 1}, x \in Items}

CountKey(items, k) == Cardinality({i \in 1..Len(items) : items[i].id = k})

UniqueKeys(items) == \A k \in Keys : CountKey(items, k) <= 1

(***************************************************************************)
(* SpecFold: the reducer folded over any sequence of change events, from   *)
(* any list of at most MaxLen items.                                       *)
(*   fUnique  the list the fold started from had no two items of one key   *)
(*   fItems   the running collection                                       *)
(*   fPrev    the collection before the last fold step                     *)
(*   fChange  the change folded last (NoChange: none yet)                  *)
(*   fTwice   the change folded last is the one folded just before it      *)
(*   fStart   the collection before the current run of equal changes       *)
(***************************************************************************)
VARIABLES fUnique, fItems, fPrev, fStart, fChange, fTwice

foldVars == <<fUnique, fItems, fPrev, fStart, fChange, fTwice>>

NoChange == [type |-> NoType, obj |-> EmptyRecord]

FoldIdle ==
    /\ fUnique = TRUE
    /\ fItems = <<>>
    /\ fPrev = <<>>
    /\ fStart = <<>>
    /\ fChange = NoChange
    /\ fTwice = FALSE

(***************************************************************************)
(* The hooks and their pipeline.                                           *)
(*                                                                         *)
(* Time is in milliseconds.  A timer is Off or holds the time left until   *)
(* it fires; Advance lets time pass up to the next expiry, and a timer     *)
(* that has reached 0 fires before time passes again.                      *)
(***************************************************************************)
\* environment events (messages, transport failures, visibility changes,
\* input changes, unmount) in one behaviour
MaxEvents == 4

\* the interval of the readyState poll
POLL_INTERVAL == 500
\* the delay of retryWhen
RETRY_DELAY == 500
BUFFER_TIME == 500
\* debounceTime of the visibilitychange events
DEBOUNCE_TIME == 500
\* the loader fires BUFFER_TIME + 10 after the effect ran
LOADER_EXTRA == 10
LOADER_TIME == BUFFER_TIME + LOADER_EXTRA

Off == -1

\* time passes in steps of at most half a buffer window
Quantum == BUFFER_TIME \div 2

\* a value of JavaScript's undefined, where an item is expected
Undefined == [undefined |-> TRUE]

\* the item the messages of the hook specifications are about
Item1a == [id |-> 1, name |-> "a"]

\* what an EventSource message carries: text that is no JSON document
\* ("malformed"), a JSON document without "result" ("noresult"), or a JSON
\* document {"result": r}
WireList ==
    {[kind |-> "malformed", result |-> NoChange],
     [kind |-> "noresult", result |-> NoChange],
     [kind |-> "json", result |-> [type |-> "Added", obj |-> Item1a]],
     [kind |-> "json", result |-> [type |-> "Deleted", obj |-> Item1a]]}
WireWatch ==
    {[kind |-> "malformed", result |-> EmptyRecord],
     [kind |-> "noresult", result |-> EmptyRecord],
     [kind |-> "json", result |-> Item1a],
     [kind |-> "json", result |-> [id |-> 1, name |-> "b"]]}

\* the arrays a caller passes as init
InitLists == {<<>>, <<Item1a>>}

\* the timeoutAfter arguments of useWatch: none, and one-and-a-half windows
TimeoutChoices == {0, BUFFER_TIME + Quantum}

VARIABLES
    phase,      \* "init": rendered, effect not yet run; "mounted": effect ran;
                \* "rerun": inputs changed, cleanup ran, effect about to run;
                \* "unmounted"
    events,     \* environment events so far
    hidden,     \* document.hidden
    listeners,  \* visibilitychange listeners registered through fromEvent
    debounceT,  \* timer of debounceTime(500)
    gateSub,    \* handlePageVisibility: subscription is set
    bufT,       \* timer of bufferTime(BUFFER_TIME)
    buffer,     \* bufferTime's open buffer; list mode: one reference to the
                \* accumulator per fold step, recorded with the content the
                \* accumulator had at that step
    retryT,     \* timer of retryWhen's delay(500)
    retryErr,   \* the error delay holds: "none", "closed" ('connection got
                \* closed unexpectedly'), "decode" (thrown inside map)
    es,         \* fromEventSource: "none" when eventSource is not set, else
                \* the readyState of eventSource
    pollT,      \* timer of setInterval(..., 500)
    conns,      \* EventSource objects created and not yet close()d
    erred,      \* the transport has invoked onerror on eventSource
    flushed,    \* the buffer the last bufferTime tick closed
    delivered,  \* the values that tick passed to the consumer's next handler
    \* useWatchList
    initGiven,  \* the caller passes init
    initCfg,    \* init || [] as it was when the effect ran
    seed,       \* the content of the array object init || [] now
    acc,        \* the content of the array ScanSubscriber's accumulator refers to
    items, error, loading,
    loaderT,    \* timer of setTimeout(..., BUFFER_TIME + 10)
    \* useWatch
    subscribe, timeoutAfter,
    item,
    everOn,     \* subscribe has been true in some render so far
    timeoutT,   \* timer of timeout(timeoutAfter)
    timedOut,   \* timeout has signalled its error
    \* history
    malformed,  \* messages received so far whose data was no JSON document
    retried,    \* the activation was created by retryWhen subscribing again
    quiet,      \* while timeout is armed: ms since the effect ran or the
                \* last message that is a JSON document arrived, counted
                \* up to timeoutAfter
    sinceValue  \* while timeout is armed: ms since the effect ran or the
                \* last value reached the hook's next handler

adapterVars == <<es, pollT, conns, erred>>
feedVars == <<gateSub, bufT, buffer, retryT, retryErr>>
gateVars == <<listeners, debounceT>>
histVars == <<malformed, retried, quiet, sinceValue>>
ghostVars == <<flushed, delivered, histVars>>
listVars == <<initGiven, initCfg, seed, acc, items, error, loading, loaderT>>
watchVars == <<subscribe, timeoutAfter, everOn, item, timeoutT, timedOut>>
hookVars ==
    <<phase, events, hidden, adapterVars, feedVars, gateVars, ghostVars,
      listVars, watchVars>>
vars == <<hookVars, foldVars>>

Timers == <<debounceT, bufT, retryT, pollT, loaderT, timeoutT>>

\* ------------------------------------------------------------------------
\* fromEventSource

\* new EventSource(url), onmessage, onerror, setInterval: a fresh activation
Activated(open) ==
    /\ es' = "CONNECTING"
    /\ pollT' = POLL_INTERVAL
    /\ conns' = open + 1
    /\ erred' = FALSE

\* the teardown: clearInterval, eventSource.close(), eventSource = null
Deactivated ==
    /\ es' = "none"
    /\ pollT' = Off
    /\ conns' = IF es = "none" THEN conns ELSE conns - 1
    /\ erred' = FALSE

\* ------------------------------------------------------------------------
\* repeat(), retryWhen((errors) => errors.pipe(delay(500)))

\* an error notification from the stream (observer.error of the adapter, or a
\* throw inside map): the activation is unsubscribed and the delay starts
Failed(err) ==
    /\ Deactivated
    /\ retryT' = RETRY_DELAY
    /\ retryErr' = err

\* ------------------------------------------------------------------------
\* handlePageVisibility

\* ensureUnsubscribed: unsubscribes bufferTime, scan, retryWhen (its pending
\* delay), repeat, map and the adapter
ensureUnsubscribed ==
    IF gateSub
    THEN /\ gateSub' = FALSE
         /\ bufT' = Off
         /\ buffer' = <<>>
         /\ retryT' = Off
         /\ retryErr' = "none"
         /\ Deactivated
    ELSE UNCHANGED <<feedVars, adapterVars>>

\* start: ensureUnsubscribed(), then src().subscribe(...): bufferTime opens a
\* buffer and starts its timer, scan takes its seed, the adapter activates
start ==
    /\ gateSub' = TRUE
    /\ bufT' = BUFFER_TIME
    /\ buffer' = <<>>
    /\ retryT' = Off
    /\ retryErr' = "none"
    /\ Activated(IF gateSub /\ es # "none" THEN conns - 1 ELSE conns)

\* the gate starting the feed without looking at document.hidden
gateSubscribedAlwaysStart ==
    /\ start
    /\ listeners' = listeners + 1
    /\ debounceT' = Off

\* new Observable(...): start if the page is visible, listen to visibilitychange
gateSubscribed ==
    /\ IF ~hidden THEN start ELSE UNCHANGED <<feedVars, adapterVars>>
    /\ listeners' = listeners + 1
    /\ debounceT' = Off

\* the gate's teardown without visibilityChangeSubscription.unsubscribe()
gateUnsubscribedKeepListener ==
    /\ UNCHANGED <<listeners, debounceT>>
    /\ ensureUnsubscribed

\* the gate's teardown: the listener, then ensureUnsubscribed
gateUnsubscribed ==
    /\ listeners' = IF listeners > 0 THEN listeners - 1 ELSE 0
    /\ debounceT' = Off
    /\ ensureUnsubscribed

\* ------------------------------------------------------------------------
\* the consumer ends of the two hooks

\* deref as it would be if every fold step returned a fresh array
derefCopy(mode, x) == x

\* what a buffered entry yields when mergeMap hands it on: in list mode
\* the entry is the accumulator array itself, read when it is handed on
deref(mode, x) == IF mode = "list" THEN acc ELSE x

\* useWatchList's error handler, and the unsubscription that follows an error
TerminalError ==
    /\ error' = TRUE
    /\ gateUnsubscribed

\* JSON.parse throwing as it would if map(JSON.parse) came after retryWhen:
\* the error reaches the hook's error handler
ParseErrorTerminal ==
    /\ TerminalError
    /\ UNCHANGED <<initGiven, initCfg, seed, acc, items, loading, loaderT>>

\* JSON.parse throws inside map, which is part of stream, the source that
\* retryWhen subscribes to: the error is one retryWhen delays and retries
ParseError ==
    /\ Failed("decode")
    /\ UNCHANGED <<gateSub, bufT, buffer, gateVars, listVars>>

\* the cleanup without sub.unsubscribe()
CleanupLoaderOnly(mode) ==
    IF mode = "list"
    THEN /\ loaderT' = Off
         /\ UNCHANGED <<gateVars, feedVars, adapterVars>>
    ELSE UNCHANGED <<gateVars, feedVars, adapterVars, timeoutT>>

\* the cleanup function the effect returned
Cleanup(mode) ==
    IF mode = "list"
    THEN /\ gateUnsubscribed
         /\ loaderT' = Off
    ELSE IF subscribe
         THEN /\ gateUnsubscribed
              /\ timeoutT' = Off
         ELSE UNCHANGED <<gateVars, feedVars, adapterVars, timeoutT>>

\* ------------------------------------------------------------------------
\* React: the effect, a change of the inputs, unmount

\* Effect without useWatch's early return on !subscribe
EffectUnguarded(mode) ==
    /\ phase \in {"init", "rerun"}
    /\ phase' = "mounted"
    /\ IF mode = "list"
       THEN /\ initCfg' = seed
            /\ gateSubscribed
            /\ acc' = IF ~hidden THEN seed ELSE acc
            /\ loaderT' = LOADER_TIME
            /\ UNCHANGED <<initGiven, seed, items, error, loading, watchVars>>
       ELSE /\ gateSubscribed
            /\ timeoutT' = IF timeoutAfter > 0 THEN timeoutAfter ELSE Off
            /\ timedOut' = FALSE
            /\ UNCHANGED <<subscribe, timeoutAfter, everOn, item, listVars>>
    /\ retried' = FALSE
    /\ quiet' = 0
    /\ sinceValue' = 0
    /\ UNCHANGED <<events, hidden, flushed, delivered, malformed, foldVars>>

Effect(mode) ==
    /\ phase \in {"init", "rerun"}
    /\ phase' = "mounted"
    /\ IF mode = "list"
       THEN /\ initCfg' = seed
            /\ gateSubscribed
            /\ acc' = IF ~hidden THEN seed ELSE acc
            /\ loaderT' = LOADER_TIME
            /\ UNCHANGED <<initGiven, seed, items, error, loading, watchVars>>
       ELSE /\ IF subscribe
               THEN /\ gateSubscribed
                    /\ timeoutT' = IF timeoutAfter > 0 THEN timeoutAfter ELSE Off
                    /\ timedOut' = FALSE
               ELSE UNCHANGED <<gateVars, feedVars, adapterVars, timeoutT, timedOut>>
            /\ UNCHANGED <<subscribe, timeoutAfter, everOn, item, listVars>>
    /\ retried' = FALSE
    /\ quiet' = 0
    /\ sinceValue' = 0
    /\ UNCHANGED <<events, hidden, flushed, delivered, malformed, foldVars>>

\* the dependencies [init, url, findItem, getItem] change: the cleanup runs and
\* the effect is due.  Either init is the same array object as before (it
\* holds what the folds left in it) or the caller passes another one, or none.
RerenderList(given, list) ==
    /\ phase = "mounted"
    /\ events < MaxEvents
    /\ events' = events + 1
    /\ phase' = "rerun"
    /\ Cleanup("list")
    /\ initGiven' = given
    /\ seed' = list
    /\ UNCHANGED <<initCfg, acc, items, error, loading, watchVars>>
    /\ UNCHANGED <<hidden, ghostVars, foldVars>>

\* the dependencies [url, subscribe, timeoutAfter] change
RerenderWatch(sub, t) ==
    /\ phase = "mounted"
    /\ events < MaxEvents
    /\ events' = events + 1
    /\ phase' = "rerun"
    /\ Cleanup("watch")
    /\ subscribe' = sub
    /\ timeoutAfter' = t
    /\ everOn' = (everOn \/ sub)
    /\ UNCHANGED <<item, timedOut, listVars>>
    /\ UNCHANGED <<hidden, ghostVars, foldVars>>

Unmount(mode) ==
    /\ phase = "mounted"
    /\ events < MaxEvents
    /\ events' = events + 1
    /\ phase' = "unmounted"
    /\ Cleanup(mode)
    /\ IF mode = "list"
       THEN UNCHANGED <<initGiven, initCfg, seed, acc, items, error, loading, watchVars>>
       ELSE UNCHANGED <<subscribe, timeoutAfter, everOn, item, timedOut, listVars>>
    /\ UNCHANGED <<hidden, ghostVars, foldVars>>

\* ------------------------------------------------------------------------
\* the page and the transport

\* document.hidden flips and visibilitychange is dispatched: debounceTime
\* restarts its timer
VisibilityChange ==
    /\ phase = "mounted"
    /\ events < MaxEvents
    /\ events' = events + 1
    /\ hidden' = ~hidden
    /\ debounceT' = IF listeners > 0 THEN DEBOUNCE_TIME ELSE debounceT
    /\ UNCHANGED <<phase, listeners, feedVars, adapterVars, ghostVars>>
    /\ UNCHANGED <<listVars, watchVars, foldVars>>

\* the connection is established
EsOpen ==
    /\ phase = "mounted"
    /\ es = "CONNECTING"
    /\ es' = "OPEN"
    /\ UNCHANGED <<pollT, conns, erred>>
    /\ UNCHANGED <<phase, events, hidden, gateVars, feedVars, ghostVars>>
    /\ UNCHANGED <<listVars, watchVars, foldVars>>

\* the transport dispatches error and either reconnects (CONNECTING) or gives
\* up (CLOSED).  eventSource.onerror = (e) => () => {...} returns a function
\* and calls nothing.
EsError(next) ==
    /\ phase = "mounted"
    /\ events < MaxEvents
    /\ events' = events + 1
    /\ es \in {"CONNECTING", "OPEN"}
    /\ es' = next
    /\ erred' = TRUE
    /\ UNCHANGED <<pollT, conns>>
    /\ UNCHANGED <<phase, hidden, gateVars, feedVars, ghostVars>>
    /\ UNCHANGED <<listVars, watchVars, foldVars>>

\* the connection closes without an error event
EsClose ==
    /\ phase = "mounted"
    /\ events < MaxEvents
    /\ events' = events + 1
    /\ es \in {"CONNECTING", "OPEN"}
    /\ es' = "CLOSED"
    /\ UNCHANGED <<pollT, conns, erred>>
    /\ UNCHANGED <<phase, hidden, gateVars, feedVars, ghostVars>>
    /\ UNCHANGED <<listVars, watchVars, foldVars>>

\* onmessage: observer.next(msg.data), map(JSON.parse(res).result), repeat,
\* retryWhen, scan, bufferTime
EsMessage(mode, m) ==
    /\ phase = "mounted"
    /\ events < MaxEvents
    /\ events' = events + 1
    /\ es = "OPEN"
    /\ CASE m.kind = "malformed" ->
            /\ ParseError
            /\ UNCHANGED watchVars
         [] m.kind = "noresult" /\ mode = "list" ->
            \* change is undefined: the reducer throws on change.type
            /\ TerminalError
            /\ UNCHANGED <<initGiven, initCfg, seed, acc, items, loading, loaderT>>
            /\ UNCHANGED watchVars
         [] m.kind = "noresult" /\ mode # "list" ->
            /\ buffer' = Append(buffer, Undefined)
            /\ UNCHANGED <<gateSub, bufT, retryT, retryErr, adapterVars, gateVars>>
            /\ UNCHANGED <<listVars, watchVars>>
         [] m.kind = "json" /\ mode = "list" ->
            \* the reducer mutates the accumulator, which is the seed array
            /\ acc' = scanList(acc, m.result)
            /\ seed' = acc'
            /\ buffer' = Append(buffer, acc')
            /\ UNCHANGED <<gateSub, bufT, retryT, retryErr, adapterVars, gateVars>>
            /\ UNCHANGED <<initGiven, initCfg, items, error, loading, loaderT>>
            /\ UNCHANGED watchVars
         [] m.kind = "json" /\ mode # "list" ->
            \* (item, update) => update
            /\ buffer' = Append(buffer, m.result)
            /\ UNCHANGED <<gateSub, bufT, retryT, retryErr, adapterVars, gateVars>>
            /\ UNCHANGED <<listVars, watchVars>>
    /\ malformed' = IF m.kind = "malformed" THEN malformed + 1 ELSE malformed
    /\ quiet' = IF m.kind = "malformed" THEN quiet ELSE 0
    /\ UNCHANGED <<phase, hidden, flushed, delivered, retried, sinceValue>>
    /\ UNCHANGED foldVars

\* ------------------------------------------------------------------------
\* timers

\* the poll testing readyState against ReadyState.DONE, a value an
\* EventSource never has
PollTickDone ==
    /\ pollT = 0
    /\ pollT' = POLL_INTERVAL
    /\ UNCHANGED <<es, conns, erred, retryT, retryErr>>
    /\ UNCHANGED <<gateSub, bufT, buffer>>
    /\ UNCHANGED <<phase, events, hidden, gateVars, ghostVars>>
    /\ UNCHANGED <<listVars, watchVars, foldVars>>

\* the poll: observer.error when readyState is CLOSED
PollTick ==
    /\ pollT = 0
    /\ IF es = "CLOSED"
       THEN Failed("closed")
       ELSE /\ pollT' = POLL_INTERVAL
            /\ UNCHANGED <<es, conns, erred, retryT, retryErr>>
    /\ UNCHANGED <<gateSub, bufT, buffer>>
    /\ UNCHANGED <<phase, events, hidden, gateVars, ghostVars>>
    /\ UNCHANGED <<listVars, watchVars, foldVars>>

\* RetryFire as it would be with scan inside the source that is retried, on
\* a fresh copy of the configured initial list
RetryFireResets ==
    /\ retryT = 0
    /\ retryT' = Off
    /\ retryErr' = "none"
    /\ Activated(conns)
    /\ retried' = TRUE
    /\ acc' = initCfg
    /\ UNCHANGED <<gateSub, bufT, buffer>>
    /\ UNCHANGED <<phase, events, hidden, gateVars>>
    /\ UNCHANGED <<flushed, delivered, malformed, quiet, sinceValue>>
    /\ UNCHANGED <<initGiven, initCfg, seed, items, error, loading, loaderT>>
    /\ UNCHANGED <<watchVars, foldVars>>

\* the delayed error reaches retryWhen: the stream is subscribed again
RetryFire ==
    /\ retryT = 0
    /\ retryT' = Off
    /\ retryErr' = "none"
    /\ Activated(conns)
    /\ retried' = TRUE
    /\ UNCHANGED <<gateSub, bufT, buffer>>
    /\ UNCHANGED <<phase, events, hidden, gateVars>>
    /\ UNCHANGED <<flushed, delivered, malformed, quiet, sinceValue>>
    /\ UNCHANGED <<listVars, watchVars, foldVars>>

\* BufferFlush with a timeout that does not restart its timer on a value
BufferFlushNoRestart(mode) ==
    /\ bufT = 0
    /\ bufT' = BUFFER_TIME
    /\ buffer' = <<>>
    /\ flushed' = buffer
    /\ delivered' = [i \in 1..Len(buffer) |-> deref(mode, buffer[i])]
    /\ IF mode = "list"
       THEN /\ items' = IF buffer # <<>> THEN delivered'[Len(buffer)] ELSE items
            /\ UNCHANGED <<initGiven, initCfg, seed, acc, error, loading, loaderT>>
            /\ UNCHANGED watchVars
       ELSE /\ item' = IF buffer # <<>> THEN delivered'[Len(buffer)] ELSE item
            /\ timeoutT' = timeoutT
            /\ UNCHANGED <<subscribe, timeoutAfter, everOn, timedOut, listVars>>
    /\ sinceValue' = IF buffer # <<>> THEN 0 ELSE sinceValue
    /\ UNCHANGED <<gateSub, retryT, retryErr, adapterVars>>
    /\ UNCHANGED <<phase, events, hidden, gateVars, foldVars>>
    /\ UNCHANGED <<malformed, retried, quiet>>

\* bufferTime closes its buffer, mergeMap((l) => l) hands its entries on one
\* by one, the gate forwards them to the hook's next handler
BufferFlush(mode) ==
    /\ bufT = 0
    /\ bufT' = BUFFER_TIME
    /\ buffer' = <<>>
    /\ flushed' = buffer
    /\ delivered' = [i \in 1..Len(buffer) |-> deref(mode, buffer[i])]
    /\ IF mode = "list"
       THEN /\ items' = IF buffer # <<>> THEN delivered'[Len(buffer)] ELSE items
            /\ UNCHANGED <<initGiven, initCfg, seed, acc, error, loading, loaderT>>
            /\ UNCHANGED watchVars
       ELSE /\ item' = IF buffer # <<>> THEN delivered'[Len(buffer)] ELSE item
            \* timeout restarts its timer on every value
            /\ timeoutT' = IF buffer # <<>> /\ timeoutAfter > 0
                           THEN timeoutAfter ELSE timeoutT
            /\ UNCHANGED <<subscribe, timeoutAfter, everOn, timedOut, listVars>>
    /\ sinceValue' = IF buffer # <<>> THEN 0 ELSE sinceValue
    /\ UNCHANGED <<gateSub, retryT, retryErr, adapterVars>>
    /\ UNCHANGED <<phase, events, hidden, gateVars, foldVars>>
    /\ UNCHANGED <<malformed, retried, quiet>>

\* the handler calling start() on a visible page whether or not a
\* subscription exists
DebounceFireRestarts(mode) ==
    /\ debounceT = 0
    /\ debounceT' = Off
    /\ IF hidden /\ gateSub
       THEN /\ ensureUnsubscribed
            /\ UNCHANGED acc
       ELSE IF ~hidden
            THEN /\ start
                 /\ acc' = IF mode = "list" THEN seed ELSE acc
            ELSE UNCHANGED <<feedVars, adapterVars, acc>>
    /\ retried' = IF ~hidden THEN FALSE ELSE retried
    /\ UNCHANGED <<initGiven, initCfg, seed, items, error, loading, loaderT>>
    /\ UNCHANGED <<phase, events, hidden, listeners>>
    /\ UNCHANGED <<flushed, delivered, malformed, quiet, sinceValue>>
    /\ UNCHANGED <<watchVars, foldVars>>

\* the debounced visibilitychange handler
DebounceFire(mode) ==
    /\ debounceT = 0
    /\ debounceT' = Off
    /\ IF hidden /\ gateSub
       THEN /\ ensureUnsubscribed
            /\ UNCHANGED acc
       ELSE IF ~hidden /\ ~gateSub
            THEN /\ start
                 \* a new ScanSubscriber: its accumulator is the seed array
                 /\ acc' = IF mode = "list" THEN seed ELSE acc
            ELSE UNCHANGED <<feedVars, adapterVars, acc>>
    /\ retried' = IF ~hidden /\ ~gateSub THEN FALSE ELSE retried
    /\ UNCHANGED <<initGiven, initCfg, seed, items, error, loading, loaderT>>
    /\ UNCHANGED <<phase, events, hidden, listeners>>
    /\ UNCHANGED <<flushed, delivered, malformed, quiet, sinceValue>>
    /\ UNCHANGED <<watchVars, foldVars>>

\* setTimeout(() => setLoading(false), BUFFER_TIME + 10)
LoaderFire ==
    /\ loaderT = 0
    /\ loaderT' = Off
    /\ loading' = FALSE
    /\ UNCHANGED <<initGiven, initCfg, seed, acc, items, error>>
    /\ UNCHANGED <<phase, events, hidden, gateVars, feedVars, adapterVars>>
    /\ UNCHANGED <<ghostVars, watchVars, foldVars>>

\* timeout(timeoutAfter): no value for timeoutAfter ms: an error to a
\* subscriber without an error handler, and the unsubscription that follows
TimeoutFire ==
    /\ timeoutT = 0
    /\ timeoutT' = Off
    /\ timedOut' = TRUE
    /\ gateUnsubscribed
    /\ UNCHANGED <<subscribe, timeoutAfter, everOn, item>>
    /\ UNCHANGED <<phase, events, hidden, ghostVars, listVars, foldVars>>

\* time passes: by Quantum, or up to the next expiry if that is sooner.  No
\* time passes between a cleanup and the effect that React runs right after it.
Running == {i \in 1..Len(Timers) : Timers[i] # Off}

Pass(t, d) == IF t = Off THEN Off ELSE t - d

\* a stretch of time measured while timeout is armed, up to timeoutAfter
Elapsed(t, d) ==
    IF timeoutT = Off THEN t
    ELSE IF t + d > timeoutAfter THEN timeoutAfter ELSE t + d

Advance ==
    /\ phase \in {"mounted", "unmounted"}
    /\ Running # {}
    /\ \A i \in Running : Timers[i] > 0
    /\ LET d == CHOOSE x \in {Quantum} \cup {Timers[i] : i \in Running} :
                    \A i \in Running : x <= Timers[i] /\ x <= Quantum
       IN /\ debounceT' = Pass(debounceT, d)
          /\ bufT' = Pass(bufT, d)
          /\ retryT' = Pass(retryT, d)
          /\ pollT' = Pass(pollT, d)
          /\ loaderT' = Pass(loaderT, d)
          /\ timeoutT' = Pass(timeoutT, d)
          /\ quiet' = Elapsed(quiet, d)
          /\ sinceValue' = Elapsed(sinceValue, d)
    /\ UNCHANGED <<phase, events, hidden, listeners, gateSub, buffer, retryErr>>
    /\ UNCHANGED <<es, conns, erred, flushed, delivered, malformed, retried>>
    /\ UNCHANGED <<initGiven, initCfg, seed, acc, items, error, loading>>
    /\ UNCHANGED <<subscribe, timeoutAfter, everOn, item, timedOut, foldVars>>

\* ------------------------------------------------------------------------
\* the specifications

PipelineIdle ==
    /\ phase = "init"
    /\ events = 0
    /\ listeners = 0
    /\ debounceT = Off
    /\ gateSub = FALSE
    /\ bufT = Off
    /\ buffer = <<>>
    /\ retryT = Off
    /\ retryErr = "none"
    /\ es = "none"
    /\ pollT = Off
    /\ conns = 0
    /\ erred = FALSE
    /\ flushed = <<>>
    /\ delivered = <<>>
    /\ malformed = 0
    /\ retried = FALSE
    /\ quiet = 0
    /\ sinceValue = 0

ListIdle ==
    /\ initGiven = FALSE
    /\ initCfg = <<>>
    /\ seed = <<>>
    /\ acc = <<>>
    /\ items = <<>>
    /\ error = FALSE
    /\ loading = TRUE
    /\ loaderT = Off

WatchIdle ==
    /\ subscribe = FALSE
    /\ everOn = FALSE
    /\ timeoutAfter = 0
    /\ item = EmptyRecord
    /\ timeoutT = Off
    /\ timedOut = FALSE

\* useWatchList rendered for the first time: React.useState([]), (false), (true)
Init ==
    /\ PipelineIdle
    /\ hidden \in BOOLEAN
    /\ initGiven \in BOOLEAN
    /\ seed \in IF initGiven THEN InitLists ELSE {<<>>}
    /\ initCfg = seed
    /\ acc = seed
    /\ items = <<>>
    /\ error = FALSE
    /\ loading = TRUE
    /\ loaderT = Off
    /\ WatchIdle
    /\ FoldIdle

Next ==
    \/ Effect("list")
    \/ \E list \in InitLists : RerenderList(TRUE, list)
    \/ RerenderList(FALSE, <<>>)
    \/ RerenderList(initGiven, IF initGiven THEN seed ELSE <<>>)
    \/ Unmount("list")
    \/ VisibilityChange
    \/ EsOpen
    \/ \E next \in {"CONNECTING", "CLOSED"} : EsError(next)
    \/ EsClose
    \/ \E m \in WireList : EsMessage("list", m)
    \/ PollTick
    \/ RetryFire
    \/ BufferFlush("list")
    \/ DebounceFire("list")
    \/ LoaderFire
    \/ Advance

Spec == Init /\ [][Next]_vars

\* useWatch rendered for the first time: React.useState({})
InitWatch ==
    /\ PipelineIdle
    /\ hidden \in BOOLEAN
    /\ subscribe \in BOOLEAN
    /\ everOn = subscribe
    /\ timeoutAfter \in TimeoutChoices
    /\ item = EmptyRecord
    /\ timeoutT = Off
    /\ timedOut = FALSE
    /\ ListIdle
    /\ FoldIdle

NextWatch ==
    \/ Effect("watch")
    \/ \E sub \in BOOLEAN, t \in TimeoutChoices : RerenderWatch(sub, t)
    \/ Unmount("watch")
    \/ VisibilityChange
    \/ EsOpen
    \/ \E next \in {"CONNECTING", "CLOSED"} : EsError(next)
    \/ EsClose
    \/ \E m \in WireWatch : EsMessage("watch", m)
    \/ PollTick
    \/ RetryFire
    \/ BufferFlush("watch")
    \/ DebounceFire("watch")
    \/ TimeoutFire
    \/ Advance

SpecWatch == InitWatch /\ [][NextWatch]_vars

\* the reducer alone: the hooks stay unrendered
FoldStep(change) ==
    /\ fItems' = scanList(fItems, change)
    /\ fPrev' = fItems
    /\ fStart' = IF change = fChange THEN fStart ELSE fItems
    /\ fChange' = change
    /\ fTwice' = (change = fChange)
    /\ UNCHANGED <<fUnique, hookVars>>

InitFold ==
    /\ fItems \in ListsUpTo(MaxLen)
    /\ fUnique = UniqueKeys(fItems)
    /\ fPrev = fItems
    /\ fStart = fItems
    /\ fChange = NoChange
    /\ fTwice = FALSE
    /\ PipelineIdle
    /\ hidden = FALSE
    /\ ListIdle
    /\ WatchIdle

NextFold == \E change \in Changes : FoldStep(change)

SpecFold == InitFold /\ [][NextFold]_vars

(***************************************************************************)
(* Properties of the list watch (checked under Spec).                      *)
(***************************************************************************)
\* nothing of the hook exists: no EventSource, no timer, no listener
NoResources ==
    /\ es = "none"
    /\ conns = 0
    /\ listeners = 0
    /\ ~gateSub
    /\ \A i \in 1..Len(Timers) : Timers[i] = Off

\* the step is a tick of the readyState poll: the timer was due and is
\* re-armed, or the activation ended while the feed stays subscribed
PollTicks == pollT = 0 /\ pollT' \in {POLL_INTERVAL, Off} /\ gateSub'

\* the step is a tick of bufferTime
BufferTicks == bufT = 0 /\ bufT' = BUFFER_TIME

\* C1 as claimed: whenever the gate of a mounted list watch starts a feed
\* (the page is visible again after the feed was cancelled while it was
\* hidden), the reducer state the feed folds from is the configured
\* initial list.
C1_RestartFromInit ==
    [][(phase = "mounted" /\ ~gateSub /\ gateSub') => acc' = initCfg']_vars

\* C2 as claimed: a step in which the transport invokes the error callback
\* of an active activation signals a failure: the activation ends and its
\* error reaches the retry layer.
C2_ErrorCallbackSignals ==
    [][(~erred /\ erred') => (es' = "none" /\ retryT' = RETRY_DELAY)]_vars

\* C3 as claimed: on a subscribed list watch, an activation whose transport
\* has failed (error callback or close) is discarded no later than the next
\* poll tick, with the retry delay started, and the error flag is not set.
C3_FailedActivationDiscarded ==
    [][(gateSub /\ (erred \/ es = "CLOSED") /\ PollTicks)
            => (es' = "none" /\ retryT' = RETRY_DELAY /\ error' = error)]_vars

\* C4: a poll tick that finds the transport closed signals a failure (the
\* activation ends, the error 'connection got closed unexpectedly' goes to
\* the retry layer); a closed transport waits at most one poll interval for
\* it; and an activation that is torn down has no poll timer left.
C4_PollSignalsClosed ==
    [][/\ (es = "CLOSED" /\ PollTicks)
            => (es' = "none" /\ retryT' = RETRY_DELAY /\ retryErr' = "closed")
       /\ es' = "CLOSED" => pollT' \in 0..POLL_INTERVAL
       /\ es' = "none" => pollT' = Off]_vars

\* C4 witness: the feed is subscribed, the activation was ended by the
\* poll's error and the retry delay is running.
C4_Witness ==
    /\ gateSub
    /\ es = "none"
    /\ pollT = Off
    /\ retryErr = "closed"
    /\ retryT > 0

\* C9 as claimed: every snapshot a fold step produced is among the values
\* the close of its buffer window passes to the consumer.
C9_EverySnapshotDelivered ==
    \A i \in 1..Len(flushed) : \E j \in 1..Len(delivered) : delivered[j] = flushed[i]

\* C9 amended: when a buffer window closes with the feed still subscribed,
\* the consumer is passed one value per fold step of the window, each of
\* them the list as the last fold of the window left it; a window is never
\* open for longer than BUFFER_TIME; and a buffer that is dropped (the gate
\* cancelled the feed, the hook was released, the pipeline failed) delivers
\* nothing.
C9_WindowDeliversFinalState ==
    [][/\ (BufferTicks /\ buffer # <<>>)
            => /\ delivered' = [i \in 1..Len(buffer) |-> buffer[Len(buffer)]]
               /\ items' = buffer[Len(buffer)]
       /\ buffer' # <<>> => (gateSub' /\ bufT' \in 0..BUFFER_TIME)
       /\ (buffer # <<>> /\ buffer' = <<>> /\ ~BufferTicks)
            => (~gateSub' /\ items' = items /\ delivered' = delivered)]_vars

\* C9 witness: a window closed over two fold steps that produced different
\* lists, and the consumer was passed the second list twice.
C9_Witness ==
    /\ Len(flushed) = 2
    /\ flushed[1] # flushed[2]
    /\ delivered = <<flushed[2], flushed[2]>>
    /\ items = flushed[2]

\* C11: in every reachable state the hook has at most one EventSource that
\* is not closed (exactly one while an activation exists, none otherwise)
\* and at most one visibilitychange listener; and between the cleanup of an
\* input change and the effect that follows it, as after unmount, it has
\* neither.
C11_SingleOwnership ==
    /\ conns = (IF es = "none" THEN 0 ELSE 1)
    /\ listeners <= 1
    /\ phase \in {"rerun", "unmounted"} => (conns = 0 /\ listeners = 0)

\* C11 witness: the effect has run again after an input change (the loader
\* timer runs although loading is already false), the new connection is
\* open and there is one connection and one listener.
C11_Witness ==
    /\ phase = "mounted"
    /\ ~loading
    /\ loaderT > 0
    /\ es = "OPEN"
    /\ conns = 1
    /\ listeners = 1

\* C12: the step that releases the hook (unmount, or the cleanup of an input
\* change) leaves no timer running (poll, retry delay, buffer window,
\* debounce), no visibility listener, no feed and no EventSource that is
\* not closed, whatever the pipeline was doing; after unmount, whatever time
\* passes, none of them comes back; and a released hook is handed no value
\* and no error.
C12_ReleaseStopsEverything ==
    [][/\ (phase = "mounted" /\ phase' # "mounted") => (NoResources' /\ buffer' = <<>>)
       /\ phase = "unmounted" => NoResources'
       /\ phase # "mounted"
            => (items' = items /\ error' = error /\ item' = item
                    /\ delivered' = delivered)]_vars

\* C12 witness: the hook was unmounted with the page hidden, after its
\* pipeline had delivered a list; nothing of it is left.
C12_Witness ==
    /\ phase = "unmounted"
    /\ hidden
    /\ items # <<>>
    /\ NoResources
    /\ buffer = <<>>

\* C13 as claimed: a message that is no JSON document ends the pipeline: the
\* error flag is true after it, nothing is left to retry, and the error
\* flag never goes back to false.
C13_AsClaimed ==
    [][/\ malformed' # malformed
            => (error' /\ retryT' = Off /\ es' = "none" /\ ~gateSub')
       /\ error => error']_vars

\* C13 amended: a message that is no JSON document is an error of the
\* stream the retry layer retries: the activation is discarded and the retry
\* delay starts, the feed stays subscribed, the error flag, the list and the
\* reducer state stay as they were; and when that delay ends with the feed
\* still subscribed, a new activation is created.
C13_DecodeFailureRetried ==
    [][/\ malformed' # malformed
            => /\ es' = "none" /\ conns' = 0 /\ pollT' = Off
               /\ retryT' = RETRY_DELAY /\ retryErr' = "decode"
               /\ gateSub' /\ listeners' = listeners
               /\ error' = error /\ items' = items /\ acc' = acc
       /\ (retryErr = "decode" /\ retryErr' = "none" /\ gateSub')
            => (retryT = 0 /\ es' = "CONNECTING" /\ conns' = 1 /\ error' = error)]_vars

\* C13 witness: the one thing that happened to the list watch is a message
\* that was no JSON document; the activation that is open now was created
\* by the retry, and the error flag is false.
C13_Witness ==
    /\ events = 1
    /\ malformed = 1
    /\ retried
    /\ es = "OPEN"
    /\ gateSub
    /\ ~error

\* C16: the effect that subscribes the gate starts the feed exactly when the
\* page is visible then; when the debounce of the visibility changes
\* expires with the page hidden, the feed is cancelled with everything it
\* holds (activation, poll, retry delay, buffer window); no feed is started
\* while the page is hidden; and without a feed there is no EventSource.
C16_GateFollowsVisibility ==
    [][/\ (phase # "mounted" /\ phase' = "mounted") => (gateSub' <=> ~hidden')
       /\ (debounceT = 0 /\ debounceT' = Off /\ phase' = phase /\ hidden)
            => /\ ~gateSub'
               /\ pollT' = Off /\ retryT' = Off /\ bufT' = Off /\ buffer' = <<>>
       /\ (~gateSub /\ hidden') => ~gateSub'
       /\ ~gateSub' => (es' = "none" /\ conns' = 0)]_vars

\* C16 witness: the feed of a mounted list watch had delivered a list, the
\* page went hidden and stayed hidden through the debounce: the listener is
\* still registered, there is no feed and no EventSource.
C16_Witness ==
    /\ phase = "mounted"
    /\ hidden
    /\ debounceT = Off
    /\ listeners = 1
    /\ ~error
    /\ items # <<>>
    /\ ~gateSub
    /\ es = "none"
    /\ conns = 0

\* C18: while the feed stays subscribed, a failure that discards the
\* activation and the retry that creates the next one leave the reducer
\* state as it is, and the state changes only by folding a message into it:
\* the first message of the new activation is folded into the list the last
\* message of the old one left.
C18_StatePersistsAcrossReconnect ==
    [][/\ (gateSub /\ gateSub' /\ es # "none" /\ es' = "none") => acc' = acc
       /\ (gateSub /\ gateSub' /\ retryT = 0 /\ retryT' = Off)
            => (es' = "CONNECTING" /\ acc' = acc)
       /\ (gateSub /\ gateSub' /\ acc' # acc)
            => /\ es = "OPEN" /\ es' = "OPEN"
               /\ \E m \in WireList : m.kind = "json" /\ acc' = scanList(acc, m.result)
               /\ buffer' = Append(buffer, acc')]_vars

\* C18 witness: an item was added, the transport closed, the poll discarded
\* the activation and the retry has just created the next one (no message
\* can have arrived on it yet): the reducer state still holds the item.
C18_Witness ==
    /\ events = 2
    /\ malformed = 0
    /\ retried
    /\ es = "CONNECTING"
    /\ gateSub
    /\ initCfg = <<>>
    /\ acc = <<Item1a>>

\* what makes up the underlying feed and its transport connection
FeedState == <<gateSub, es, conns, erred, retried, pollT, retryT, bufT, buffer, acc>>

\* C19: a visibility transition only restarts the 500 ms debounce and leaves
\* the feed and its connection as they are; a gate that stays subscribed
\* (its listener stays registered) cancels or starts a feed only when the
\* debounce expires, 500 ms after the last transition; and when it expires
\* on a visible page whose feed is active, the feed and its connection stay
\* as they are.
C19_BurstKeepsFeed ==
    [][/\ hidden' # hidden
            => /\ FeedState' = FeedState
               /\ listeners > 0 => debounceT' = DEBOUNCE_TIME
       /\ (listeners > 0 /\ listeners' = listeners /\ gateSub' # gateSub)
            => debounceT = 0
       /\ (listeners > 0 /\ listeners' = listeners /\ debounceT = 0
                /\ debounceT' = Off /\ ~hidden /\ gateSub)
            => FeedState' = FeedState]_vars

\* C19 witness: the page is visible again with the debounce still pending
\* (it went hidden and came back within 500 ms), and the feed is active on
\* its open connection, still holding a snapshot in its buffer.
C19_Witness ==
    /\ phase = "mounted"
    /\ ~hidden
    /\ debounceT > 0
    /\ debounceT < DEBOUNCE_TIME
    /\ gateSub
    /\ es = "OPEN"
    /\ conns = 1
    /\ buffer # <<>>

\* C14 as claimed: while a subscription of the list watch exists, the
\* loading flag is true exactly as long as the 510 ms since the start of
\* that subscription have not passed (its loader timer has not fired).
C14_LoadingPerSubscription ==
    phase = "mounted" => (loading <=> loaderT # Off)

(***************************************************************************)
(* Properties of the single-item watch (checked under SpecWatch).          *)
(***************************************************************************)
\* C10 as claimed: whenever subscribe is false there is no connection, no
\* timer and no listener, and the exposed value is the default empty record.
C10_AsClaimed ==
    (phase = "mounted" /\ ~subscribe) => (NoResources /\ item = EmptyRecord)

\* C10 amended: whenever subscribe is false there is no connection, no timer
\* and no listener, and the exposed value does not change; it is the default
\* empty record as long as subscribe has never been true.
C10_UnsubscribedIdle ==
    [][/\ ~subscribe' => NoResources'
       /\ ~subscribe => item' = item
       /\ ~everOn' => item' = EmptyRecord]_vars

\* C10 witness: subscribe went from true to false after a value had been
\* delivered, the page's visibility changed since; nothing of the hook is
\* left and the value is still exposed.
C10_Witness ==
    /\ phase = "mounted"
    /\ ~subscribe
    /\ everOn
    /\ item # EmptyRecord
    /\ hidden
    /\ NoResources

\* C15 as claimed: the timeout failure is surfaced only when a stretch of
\* timeoutAfter ms has passed in which no event (a message that decodes)
\* arrived from the transport.
C15_AsClaimed ==
    [][(~timedOut /\ timedOut') => quiet = timeoutAfter]_vars

\* C15 amended: the timeout failure is surfaced only when timeoutAfter ms
\* have passed since the effect ran or since the last value reached the
\* consumer, and then the subscription is released and the value stays as
\* it is; once that much time has passed the failure is due (no more time
\* passes before it is surfaced or the hook released); and a buffer window
\* that closes with values before that hands the last of them to the
\* consumer and surfaces no failure.
C15_TimeoutOnSilentLiveStream ==
    [][/\ (~timedOut /\ timedOut')
            => (timeoutAfter > 0 /\ sinceValue = timeoutAfter /\ NoResources')
       /\ (timeoutT' # Off /\ sinceValue' = timeoutAfter') => timeoutT' = 0
       /\ (BufferTicks /\ buffer # <<>>)
            => (item' = buffer[Len(buffer)] /\ ~timedOut' /\ sinceValue' = 0)
       /\ (timedOut /\ timedOut') => item' = item]_vars

\* C15 witness: the timeout failure was surfaced timeoutAfter ms after the
\* last value reached the consumer, although a message had arrived from
\* the transport less than timeoutAfter ms before.
C15_Witness ==
    /\ timedOut
    /\ sinceValue = timeoutAfter
    /\ quiet < timeoutAfter
    /\ item # EmptyRecord
    /\ NoResources

(***************************************************************************)
(* Properties of the reducer (checked under SpecFold).                     *)
(***************************************************************************)
\* the last change matched no item of the collection it was folded into
NoMatch == \A i \in 1..Len(fPrev) : fPrev[i].id # fChange.obj.id

\* the first index of fPrev whose item has the key of the last change
FirstMatch ==
    CHOOSE m \in 1..Len(fPrev) :
        /\ fPrev[m].id = fChange.obj.id
        /\ \A j \in 1..(m - 1) : fPrev[j].id # fChange.obj.id

\* C5: folding from a list with no two items of one key, after any sequence
\* of changes the collection holds at most one item per key.
C5_AtMostOnePerKey == fUnique => UniqueKeys(fItems)

\* C5 witness: from a duplicate-free list, an add for a key already present
\* was folded into a two-item collection and replaced the item in place.
C5_Witness ==
    /\ fUnique
    /\ fChange.type = "Added"
    /\ Len(fPrev) = 2
    /\ ~NoMatch
    /\ fItems # fPrev
    /\ Len(fItems) = 2

\* C6 as claimed: a Deleted that matches nothing leaves the list unchanged,
\* and from any list a second Deleted of the same key changes nothing.
C6_AsClaimed ==
    /\ (fChange.type = "Deleted" /\ NoMatch) => fItems = fPrev
    /\ (fChange.type = "Deleted" /\ fTwice) => fItems = fPrev

\* C6 amended: a Deleted that matches nothing leaves the list unchanged, and
\* from a list holding at most one item of the key a second Deleted of the
\* same key changes nothing.
C6_DeleteIdempotent ==
    /\ (fChange.type = "Deleted" /\ NoMatch) => fItems = fPrev
    /\ (fChange.type = "Deleted" /\ fTwice /\ CountKey(fStart, fChange.obj.id) <= 1)
            => fItems = fPrev

\* C6 witness: the first Deleted removed the one matching item of a two-item
\* list, the second was folded and left the rest alone.
C6_Witness ==
    /\ fChange.type = "Deleted"
    /\ fTwice
    /\ Len(fStart) = 2
    /\ CountKey(fStart, fChange.obj.id) = 1
    /\ Len(fPrev) = 1
    /\ fItems = fPrev

\* C7: an Updated whose key matches no item leaves the list as it was.
C7_UpdateUnknownNoop ==
    (fChange.type = "Updated" /\ NoMatch) => fItems = fPrev

\* C7 witness: an Updated for an unknown key was folded into a non-empty list.
C7_Witness ==
    /\ fChange.type = "Updated"
    /\ NoMatch
    /\ Len(fPrev) > 0
    /\ "name" \in DOMAIN fChange.obj

\* C17: an Updated whose key matches an item leaves the list length and all
\* other indices as they were; the item at the (first) matching index has
\* the fields of the existing item and of the extracted item, each field of
\* the extracted item with the event's value, each other field with the
\* existing value.
C17_UpdateMerges ==
    (fChange.type = "Updated" /\ ~NoMatch) =>
        LET old == fPrev[FirstMatch]
            new == fItems[FirstMatch]
        IN /\ Len(fItems) = Len(fPrev)
           /\ \A i \in 1..Len(fPrev) : i # FirstMatch => fItems[i] = fPrev[i]
           /\ DOMAIN new = (DOMAIN old) \cup (DOMAIN fChange.obj)
           /\ \A f \in DOMAIN fChange.obj : new[f] = fChange.obj[f]
           /\ \A f \in (DOMAIN old) \ (DOMAIN fChange.obj) : new[f] = old[f]

\* C17 witness: an Updated that carries no name was folded into a two-item
\* list whose second item has its key and a name: the name is kept.
C17_Witness ==
    /\ fChange.type = "Updated"
    /\ Len(fPrev) = 2
    /\ ~NoMatch
    /\ FirstMatch = 2
    /\ "name" \notin DOMAIN fChange.obj
    /\ "name" \in DOMAIN fPrev[2]
    /\ fItems[2].name = fPrev[2].name
    /\ fItems[1] = fPrev[1]

\* C8: a change that is neither Updated nor Deleted prepends its item when
\* no item matches (the others keep their order), and otherwise replaces
\* the matching item in place, all other indices unchanged.
C8_DefaultInsertOrReplace ==
    (fChange # NoChange /\ fChange.type \notin {"Updated", "Deleted"}) =>
        IF NoMatch
        THEN /\ Len(fItems) = Len(fPrev) + 1
             /\ fItems[1] = fChange.obj
             /\ \A i \in 1..Len(fPrev) : fItems[i + 1] = fPrev[i]
        ELSE /\ Len(fItems) = Len(fPrev)
             /\ fItems[FirstMatch] = fChange.obj
             /\ \A i \in 1..Len(fPrev) : i # FirstMatch => fItems[i] = fPrev[i]

\* C8 witness: a change of another type was folded twice into a one-item
\* list of another key: first prepended, then replaced in place at index 1.
C8_Witness ==
    /\ fChange # NoChange
    /\ fChange.type = "Modified"
    /\ fTwice
    /\ Len(fStart) = 1
    /\ fStart[1].id # fChange.obj.id
    /\ Len(fPrev) = 2
    /\ fItems = <<fChange.obj, fStart[1]>>

\* C20 as claimed: from any list, folding a change a second time in a row
\* leaves the list as the first fold left it, whatever the type.
C20_AsClaimed == fTwice => fItems = fPrev

\* C20 amended: folding a change a second time in a row leaves the list as
\* the first fold left it, for Added, Updated and the other types from any
\* list, and for Deleted from a list that held at most one item of the key.
C20_RedeliveryIdempotent ==
    (fTwice /\ (fChange.type = "Deleted" => CountKey(fStart, fChange.obj.id) <= 1))
        => fItems = fPrev

\* C20 witness: an Updated was folded twice into a list of two items of its
\* key: the first fold changed the list, the second left it as it was.
C20_Witness ==
    /\ fTwice
    /\ fChange.type = "Updated"
    /\ Len(fStart) = 2
    /\ CountKey(fStart, fChange.obj.id) = 2
    /\ fPrev # fStart
    /\ fItems = fPrev
====
